---- MODULE Spec2Model ----
(***************************************************************************)
(* Model of the quantum wavefunction store of                              *)
(* final_proj/part_5/quantum_wavefunc_redis/quantum_wavefunc_redis/        *)
(* wave_function.py: the field codec (c2b, b2c, gen_field), the Redis      *)
(* root hash with its expiry timer, the memory check and temp cleanup,     *)
(* and the signal driven graceful exit.                                    *)
(*                                                                         *)
(* Byte strings are sequences of one-character strings.  A double is a     *)
(* record [neg, hi, lo] standing for (-1)^neg * (hi*10^-6 + lo*10^-12),    *)
(* so that a value carries two decimal digits more than c2b prints.  A     *)
(* time tag is an integer number of 10^-5 units, one digit more than       *)
(* gen_field prints.                                                       *)
(***************************************************************************)
EXTENDS Integers, Sequences, FiniteSets, TLC

VARIABLES
    hash,         \* the root hash on the server: field name -> stored bytes
    ttl,          \* remaining seconds of the root key's expiry, 0 = no expiry
    tempKeys,     \* the keys matching quantum:temp:* on the server
    config,       \* the CONFIG SET names this process applied
    redis_client, \* the module global: "None" or "r"
    EXIT_FLAG,    \* the module global
    pool,         \* open connections of the process's connection pool
    pc,           \* position of the main thread
    frames,       \* stack of running graceful_exit invocations
    exit_status,  \* <<>> while the process lives, <<0>> after sys.exit(0)
    last,         \* the operation that produced this state, with its result
    batch,        \* the latest batch_save that returned, <<>> when overwritten
    counts,       \* what the process did so far (history)
    codec,        \* inputs and outputs of the codec functions
    writer        \* another process's batch_save on the same root hash

storeVars == <<hash, ttl, tempKeys, config>>
procVars  == <<redis_client, EXIT_FLAG, pool, pc, frames, exit_status>>
vars == <<hash, ttl, tempKeys, config, redis_client, EXIT_FLAG,
          pool, pc, frames, exit_status, last, batch, counts, codec, writer>>

(***************************************************************************)
(* Configuration (class QuantumRedisConfig) and literals of the code.      *)
(***************************************************************************)
MAX_MEMORY_MB == 8000
TEMP_DATA_TTL == 3600
USAGE_TRIGGER == 85
VALUE_DIGITS  == 10
TIME_DIGITS   == 4

(***************************************************************************)
(* Bounds of the model.                                                    *)
(***************************************************************************)
MaxSignals == 2      \* graceful_exit invocations of one run
TickSecs   == 1800   \* seconds one step of the simulated clock advances

(***************************************************************************)
(* Text helpers: what Python's str(int) and '%.Nf' produce.                *)
(***************************************************************************)
DigitChars == <<"0", "1", "2", "3", "4", "5", "6", "7", "8", "9">>

DigitVal(ch) == CHOOSE d \in 0..9 : DigitChars[d + 1] = ch

IsDigit(ch) == \E d \in 0..9 : DigitChars[d + 1] = ch

RECURSIVE Pow10(_)
Pow10(n) == IF n = 0 THEN 1 ELSE 10 * Pow10(n - 1)

RECURSIVE NatStr(_)
NatStr(n) ==
    IF n < 10 THEN <<DigitChars[n + 1]>>
    ELSE NatStr(n \div 10) \o <<DigitChars[(n % 10) + 1]>>

IntStr(n) == IF n < 0 THEN <<"-">> \o NatStr(-n) ELSE NatStr(n)

\* n written with exactly w digits, zero padded
RECURSIVE PadNat(_, _)
PadNat(n, w) ==
    IF w = 0 THEN <<>>
    ELSE PadNat(n \div 10, w - 1) \o <<DigitChars[(n % 10) + 1]>>

RECURSIVE ParseNat(_)
ParseNat(s) ==
    IF s = <<>> THEN 0
    ELSE 10 * ParseNat(SubSeq(s, 1, Len(s) - 1)) + DigitVal(s[Len(s)])

Positions(s, ch) == {i \in 1..Len(s) : s[i] = ch}

StartsWith(s, p) == Len(s) >= Len(p) /\ SubSeq(s, 1, Len(p)) = p

RoundUp(kept, rest, half) ==
    \* round half to even, as the correctly rounded '%f' does on a tie
    rest > half \/ (rest = half /\ kept % 2 = 1)

(***************************************************************************)
(* Doubles.                                                                *)
(***************************************************************************)
Dbl(neg, hi, lo) == [neg |-> neg, hi |-> hi, lo |-> lo]

IsZero(v) == v.hi = 0 /\ v.lo = 0

\* Python's == on floats: -0.0 == 0.0
DblEq(a, b) == a.hi = b.hi /\ a.lo = b.lo /\ (a.neg = b.neg \/ IsZero(a))

Sgn(v) == IF v.neg THEN -1 ELSE 1

Abs(n) == IF n < 0 THEN -n ELSE n

\* |a - b| <= eps, eps in units of 10^-12
DblWithin(a, b, eps) ==
    LET dHi == Sgn(a) * a.hi - Sgn(b) * b.hi
        dLo == Sgn(a) * a.lo - Sgn(b) * b.lo
    IN  Abs(dHi) <= 2 /\ Abs(dHi * 1000000 + dLo) <= eps

Cplx(re, im) == [re |-> re, im |-> im]

CplxEq(a, b) == DblEq(a.re, b.re) /\ DblEq(a.im, b.im)

CplxWithin(a, b, eps) == DblWithin(a.re, b.re, eps) /\ DblWithin(a.im, b.im, eps)

\* f"{v:.Nf}" for 6 <= N <= 12: sign, integer part, ".", N fractional digits
FmtFixed(v, digits) ==
    LET drop  == 12 - digits
        unit  == Pow10(drop)
        kept  == v.lo \div unit
        up    == drop > 0 /\ RoundUp(kept, v.lo % unit, unit \div 2)
        low   == kept + (IF up THEN 1 ELSE 0)
        carry == low = Pow10(6 - drop)
        hi    == v.hi + (IF carry THEN 1 ELSE 0)
    IN  (IF v.neg THEN <<"-">> ELSE <<>>)
        \o NatStr(hi \div 1000000) \o <<".">>
        \o PadNat(hi % 1000000, 6)
        \o PadNat(IF carry THEN 0 ELSE low, 6 - drop)

\* float(s) of a text  [-]digits.digits
WellFormedDbl(s) ==
    LET body == IF s # <<>> /\ s[1] = "-" THEN Tail(s) ELSE s
        dots == Positions(body, ".")
    IN  /\ Cardinality(dots) = 1
        /\ \A i \in 1..Len(body) : i \in dots \/ IsDigit(body[i])
        /\ \E d \in dots : d > 1 /\ d < Len(body)

ParseDbl(s) ==
    LET neg  == s[1] = "-"
        body == IF neg THEN Tail(s) ELSE s
        dot  == CHOOSE d \in Positions(body, ".") : TRUE
        frac == SubSeq(body, dot + 1, Len(body)) \o PadNat(0, 12)
    IN  Dbl(neg,
            ParseNat(SubSeq(body, 1, dot - 1)) * 1000000
                + ParseNat(SubSeq(frac, 1, 6)),
            ParseNat(SubSeq(frac, 7, 12)))

(***************************************************************************)
(* WaveFuncHashHandler.c2b, b2c and gen_field.                             *)
(***************************************************************************)
\* an encoder that prints 8 fractional digits
c2b_short(c) == FmtFixed(c.re, 8) \o <<",">> \o FmtFixed(c.im, 8)

c2b(c) == FmtFixed(c.re, VALUE_DIGITS) \o <<",">> \o FmtFixed(c.im, VALUE_DIGITS)

\* b.decode().split(","), unpacked into exactly two parts, each a float
Decodable(b) ==
    /\ Cardinality(Positions(b, ",")) = 1
    /\ LET k == CHOOSE i \in Positions(b, ",") : TRUE
       IN  /\ WellFormedDbl(SubSeq(b, 1, k - 1))
           /\ WellFormedDbl(SubSeq(b, k + 1, Len(b)))

\* a decoder that takes the parts in the wrong order
b2c_swapped(b) ==
    LET k == CHOOSE i \in Positions(b, ",") : TRUE
    IN  Cplx(ParseDbl(SubSeq(b, k + 1, Len(b))), ParseDbl(SubSeq(b, 1, k - 1)))

b2c(b) ==
    LET k == CHOOSE i \in Positions(b, ",") : TRUE
    IN  Cplx(ParseDbl(SubSeq(b, 1, k - 1)), ParseDbl(SubSeq(b, k + 1, Len(b))))

\* f"{t:.4f}" of a time tag given in units of 10^-5
FmtTime(t) ==
    LET drop == 5 - TIME_DIGITS
        unit == Pow10(drop)
        m    == Abs(t)
        kept == m \div unit
        r    == kept + (IF RoundUp(kept, m % unit, unit \div 2) THEN 1 ELSE 0)
    IN  (IF t < 0 THEN <<"-">> ELSE <<>>)
        \o NatStr(r \div Pow10(TIME_DIGITS)) \o <<".">>
        \o PadNat(r % Pow10(TIME_DIGITS), TIME_DIGITS)

TempPrefix   == <<"t", "e", "m", "p", "_">>
FormalPrefix == <<"f", "o", "r", "m", "a", "l", "_">>

\* a field name without the separators between the coordinates
gen_field_unseparated(x, y, z, t, temp) ==
    (IF temp THEN TempPrefix ELSE FormalPrefix)
    \o <<"x">> \o IntStr(x) \o IntStr(y) \o IntStr(z) \o <<"_", "t">> \o FmtTime(t)

gen_field(x, y, z, t, temp) ==
    (IF temp THEN TempPrefix ELSE FormalPrefix)
    \o <<"x">> \o IntStr(x) \o <<"_", "y">> \o IntStr(y)
    \o <<"_", "z">> \o IntStr(z) \o <<"_", "t">> \o FmtTime(t)

(***************************************************************************)
(* Inputs of the runs: grid shapes, time tags, sample values.              *)
(***************************************************************************)
Shapes == {<<1, 1, 1>>, <<2, 1, 2>>}

\* time tags in units of 10^-5: batches are written at 0.01; points are read
\* at 0.01, 0.01004 and 0.02
BatchTimes == {1000}

ReadTimes == {1000, 1004, 2000}

Samples ==
    << Cplx(Dbl(FALSE, 500000, 0),      Dbl(TRUE, 250000, 0)),
       Cplx(Dbl(FALSE, 123456, 789012), Dbl(FALSE, 488, 281250)),
       Cplx(Dbl(TRUE, 999999, 999999),  Dbl(FALSE, 1464, 843750)),
       Cplx(Dbl(FALSE, 0, 0),           Dbl(TRUE, 0, 4)) >>

PsiSeeds == {0, 1}

\* the grid and the samples of the second process's batch
WriterShape == <<2, 1, 2>>

WriterSeed == CHOOSE seed \in PsiSeeds : seed # 0

CoordsOf(shape) ==
    {<<x, y, z>> : x \in 0..(shape[1] - 1), y \in 0..(shape[2] - 1),
                   z \in 0..(shape[3] - 1)}

\* an ndarray of the given shape
Psi(shape, seed) ==
    [p \in CoordsOf(shape) |->
        Samples[((p[1] + 2 * p[2] + 3 * p[3] + seed) % Len(Samples)) + 1]]

PointCoords == UNION {CoordsOf(s) : s \in Shapes}

\* readings of INFO memory used_memory (KiB) around the trigger: 85% of the budget is
\* 85 * MAX_MEMORY_MB * 1024 / 100 KiB
TriggerKiB == (USAGE_TRIGGER * MAX_MEMORY_MB * 1024) \div 100

MemLevels == {1024, TriggerKiB - 1, TriggerKiB, MAX_MEMORY_MB * 1024}

ScratchKeys == {"quantum:temp:a"}

(***************************************************************************)
(* The Redis commands the code issues, as functions of the server state.   *)
(***************************************************************************)
EmptyHash == <<>>

HMSet(h, data) ==
    [f \in DOMAIN h \cup DOMAIN data |->
        IF f \in DOMAIN data THEN data[f] ELSE h[f]]

\* nil is <<>>, a value v is <<v>>
HGet(h, f) == IF f \in DOMAIN h THEN <<h[f]>> ELSE <<>>

HLen(h) == Cardinality(DOMAIN h)

\* a scan whose pattern matches every field
HScanEvery(h) == DOMAIN h

\* hscan_iter(root, match=b"temp_*")
HScanTemp(h) == {f \in DOMAIN h : StartsWith(f, TempPrefix)}

HDel(h, fs) == [f \in DOMAIN h \ fs |-> h[f]]

\* a key that lost its last field is removed, and its expiry with it
TtlAfter(h, t) == IF DOMAIN h = {} THEN 0 ELSE t

\* an expire that leaves a timer that is already running (EXPIRE ... NX)
ExpireIfNone(h, t) == IF DOMAIN h = {} \/ t > 0 THEN t ELSE TEMP_DATA_TTL

\* EXPIRE root TEMP_DATA_TTL: no effect on a missing key
Expire(h, t) == IF DOMAIN h = {} THEN t ELSE TEMP_DATA_TTL

\* a command's outcome: answered, failed before the server ran it, or run by
\* the server with the reply lost (socket_timeout)
WriteOutcomes == {"ok", "fail", "lost"}
ReadOutcomes  == {"ok", "fail"}
Applied(o) == o # "fail"
Raised(o)  == o # "ok"

\* the pool opens a connection for a command when it holds none
PoolAfter(p, o) == IF o = "fail" THEN p ELSE 1

Opens(p, o) == IF o # "fail" /\ p = 0 THEN 1 ELSE 0

(***************************************************************************)
(* History records.                                                        *)
(***************************************************************************)
NoPre == [hash |-> EmptyHash, ttl |-> 0, tempKeys |-> {}]

Snapshot == [hash |-> hash, ttl |-> ttl, tempKeys |-> tempKeys]

Quiet == [op |-> "none", args |-> <<>>, out |-> "none", val |-> <<>>,
          pre |-> NoPre, evictions |-> 0]

Op(op, args, out, val, pre, ev) ==
    [op |-> op, args |-> args, out |-> out, val |-> val, pre |-> pre,
     evictions |-> ev]

NoCodec == [fn |-> "none", a |-> <<>>, b |-> <<>>, ra |-> <<>>, rb |-> <<>>]

(***************************************************************************)
(* clean_temp_data, command by command.  st is [hash, ttl, tempKeys]; each *)
(* step gives the server state after it.                                   *)
(***************************************************************************)
\* a cleanup that deletes the root key instead of the scanned fields
CleanHDelKey(st, temp_fields, o) ==
    IF temp_fields # {} /\ Applied(o)
    THEN [st EXCEPT !.hash = EmptyHash, !.ttl = 0]
    ELSE st

CleanHDel(st, temp_fields, o) ==
    IF temp_fields # {} /\ Applied(o)
    THEN [st EXCEPT !.hash = HDel(st.hash, temp_fields),
                    !.ttl  = TtlAfter(HDel(st.hash, temp_fields), st.ttl)]
    ELSE st

CleanDelete(st, temp_keys, o) ==
    IF temp_keys # {} /\ Applied(o)
    THEN [st EXCEPT !.tempKeys = st.tempKeys \ temp_keys]
    ELSE st

\* the whole call on an initialised client: outcomes of its four commands
\* (hscan, hdel, keys, delete) -> [st, raised, pool connection used]
clean_temp_data(st, o) ==
    LET temp_fields == HScanTemp(st.hash)
        s1 == CleanHDel(st, temp_fields, o[2])
        temp_keys == s1.tempKeys
        s2 == CleanDelete(s1, temp_keys, o[4])
    IN  IF Raised(o[1]) THEN [st |-> st, raised |-> TRUE]
        ELSE IF temp_fields # {} /\ Raised(o[2]) THEN [st |-> s1, raised |-> TRUE]
        ELSE IF Raised(o[3]) THEN [st |-> s1, raised |-> TRUE]
        ELSE IF temp_keys # {} /\ Raised(o[4]) THEN [st |-> s2, raised |-> TRUE]
        ELSE [st |-> s2, raised |-> FALSE]

CleanOutcomes == ReadOutcomes \X WriteOutcomes \X ReadOutcomes \X WriteOutcomes

\* usage = (used_memory / 1024 / 1024 / MAX_MEMORY_MB) * 100, kept as the
\* numerator over MAX_MEMORY_MB * 1024 (used_memory in KiB)
Usage(used) == used * 100

\* a trigger that needs more than 85%
UsageAboveTrigger(used) == Usage(used) > USAGE_TRIGGER * MAX_MEMORY_MB * 1024

UsageAtTrigger(used) == Usage(used) >= USAGE_TRIGGER * MAX_MEMORY_MB * 1024

(***************************************************************************)
(* The state after the module is loaded (lines 19-21, 40-41).              *)
(***************************************************************************)
NoCounts ==
    [invocations |-> 0, disconnects |-> 0, cleanups |-> 0,
     opens |-> 0, acted |-> {}, caught |-> 0, noops |-> 0,
     signals |-> 0, pings |-> 0, error |-> "none", reported |-> 0]

NoWriter == [pc |-> "idle", data |-> <<>>, temp |-> FALSE, during |-> "none"]

Init ==
    /\ hash = EmptyHash
    /\ ttl = 0
    /\ tempKeys = ScratchKeys
    /\ config = <<>>
    /\ redis_client = "None"
    /\ EXIT_FLAG = FALSE
    /\ pool = 0
    /\ pc = "idle"
    /\ frames = <<>>
    /\ exit_status = <<>>
    /\ last = Quiet
    /\ batch = <<>>
    /\ counts = NoCounts
    /\ codec = NoCodec
    /\ writer = NoWriter

\* the caller has taken the result of the previous call
Returned == last.op = "none"

Alive == exit_status = <<>> /\ Returned

\* the main thread runs its own code: no signal handler is on its stack
MainRuns == Alive /\ frames = <<>>

SetStore(st) ==
    /\ hash' = st.hash
    /\ ttl' = st.ttl
    /\ tempKeys' = st.tempKeys

UsePool(o) ==
    /\ pool' = PoolAfter(pool, o)
    /\ counts' = [counts EXCEPT !.opens = @ + Opens(pool, o)]

(***************************************************************************)
(* init_redis (lines 44-59).                                               *)
(***************************************************************************)
ConfigNames == <<"maxmemory", "maxmemory-policy",
                 "hash-max-ziplist-entries", "hash-max-ziplist-value">>

\* an initialisation that goes on to the configuration after a failed ping
InitPingIgnored ==
    /\ MainRuns /\ pc = "idle"
    /\ \E o \in ReadOutcomes :
         /\ pool' = PoolAfter(pool, o)
         /\ counts' = [counts EXCEPT
                         !.opens = @ + Opens(pool, o),
                         !.pings = @ + 1,
                         !.error = IF Raised(o) THEN "ping" ELSE @]
         /\ pc' = "init_config"
         /\ last' = Quiet
    /\ UNCHANGED <<storeVars, redis_client, EXIT_FLAG, frames, exit_status,
                   batch, codec, writer>>

\* lines 46-53: the client object, then ping on a fresh connection
InitPing ==
    /\ MainRuns /\ pc = "idle"
    /\ \E o \in ReadOutcomes :
         /\ pool' = PoolAfter(pool, o)
         /\ counts' = [counts EXCEPT
                         !.opens = @ + Opens(pool, o),
                         !.pings = @ + 1,
                         !.error = IF Raised(o) THEN "ping" ELSE @]
         /\ pc' = IF Raised(o) THEN "init_failed" ELSE "init_config"
         /\ last' = IF Raised(o)
                    THEN Op("init_redis", <<"ping">>, "raise", <<>>, NoPre, 0)
                    ELSE Quiet
    /\ UNCHANGED <<storeVars, redis_client, EXIT_FLAG, frames, exit_status,
                   batch, codec, writer>>

\* lines 54-57: the next config_set
InitConfig ==
    /\ MainRuns /\ pc = "init_config"
    /\ \E o \in WriteOutcomes :
         /\ pool' = PoolAfter(pool, o)
         /\ counts' = [counts EXCEPT
                         !.opens = @ + Opens(pool, o),
                         !.error = IF Raised(o) THEN "config_set" ELSE @]
         /\ config' = IF Applied(o)
                      THEN Append(config, ConfigNames[Len(config) + 1])
                      ELSE config
         /\ pc' = IF Raised(o) THEN "init_failed"
                  ELSE IF Len(config) + 1 = Len(ConfigNames) THEN "init_publish"
                  ELSE "init_config"
         /\ last' = IF Raised(o)
                    THEN Op("init_redis", <<"config_set">>, "raise", <<>>,
                            NoPre, 0)
                    ELSE Quiet
    /\ UNCHANGED <<hash, ttl, tempKeys, redis_client, EXIT_FLAG,
                   frames, exit_status, batch, codec, writer>>

\* lines 58-59
InitPublish ==
    /\ MainRuns /\ pc = "init_publish"
    /\ redis_client' = "r"
    /\ pc' = "ready"
    /\ last' = Op("init_redis", <<>>, "ok", <<>>, NoPre, 0)
    /\ UNCHANGED <<storeVars, EXIT_FLAG, pool, frames, exit_status, batch,
                   counts, codec, writer>>

(***************************************************************************)
(* check_memory_usage (lines 62-70) on an initialised client: the outcome  *)
(* of info and of the four commands of clean_temp_data.                    *)
(***************************************************************************)
\* a check that cleans whatever the usage is
check_memory_usage_eager(st, used, oInfo, oClean) ==
    IF Raised(oInfo)
    THEN [st |-> st, out |-> "raise", val |-> <<>>, evictions |-> 0]
    ELSE LET c == clean_temp_data(st, oClean)
         IN  [st |-> c.st,
              out |-> IF c.raised THEN "raise" ELSE "ok",
              val |-> IF c.raised THEN <<>> ELSE <<Usage(used)>>,
              evictions |-> 1]

\* lines 62-70
check_memory_usage(st, used, oInfo, oClean) ==
    IF Raised(oInfo)
    THEN [st |-> st, out |-> "raise", val |-> <<>>, evictions |-> 0]
    ELSE IF UsageAtTrigger(used)
    THEN LET c == clean_temp_data(st, oClean)
         IN  [st |-> c.st,
              out |-> IF c.raised THEN "raise" ELSE "ok",
              val |-> IF c.raised THEN <<>> ELSE <<Usage(used)>>,
              evictions |-> 1]
    ELSE [st |-> st, out |-> "ok", val |-> <<Usage(used)>>, evictions |-> 0]

NoClean == <<"ok", "ok", "ok", "ok">>


\* the outcomes of clean_temp_data's commands matter only when it runs
CleanChoices(used) == IF UsageAtTrigger(used) THEN CleanOutcomes ELSE {NoClean}

CallerReady == MainRuns /\ pc \in {"idle", "init_failed", "ready"}

CheckMemoryUsage ==
    /\ CallerReady
    /\ IF redis_client = "None"
       THEN /\ last' = Op("check_memory_usage", <<>>, "ok", <<0>>,
                          Snapshot, 0)
            /\ UNCHANGED <<hash, ttl, tempKeys, pool, counts>>
       ELSE \E used \in MemLevels, oInfo \in ReadOutcomes :
            \E oClean \in CleanChoices(used) :
              LET r == check_memory_usage(Snapshot, used, oInfo, oClean)
              IN  /\ SetStore(r.st)
                  /\ UsePool(oInfo)
                  /\ last' = Op("check_memory_usage", <<used>>, r.out,
                                r.val, Snapshot, r.evictions)
    /\ UNCHANGED <<config, redis_client, EXIT_FLAG, pc, frames,
                   exit_status, batch, codec, writer>>

\* clean_temp_data called by the main thread (lines 73-78)
CleanTempData ==
    /\ CallerReady
    /\ IF redis_client = "None"
       THEN /\ last' = Op("clean_temp_data", <<>>, "ok", <<>>, Snapshot, 0)
            /\ UNCHANGED <<hash, ttl, tempKeys, pool, counts>>
       ELSE \E o \in CleanOutcomes :
              LET c == clean_temp_data(Snapshot, o)
              IN  /\ SetStore(c.st)
                  /\ UsePool(o[1])
                  /\ last' = Op("clean_temp_data", <<>>,
                                IF c.raised THEN "raise" ELSE "ok", <<>>,
                                Snapshot, 1)
    /\ UNCHANGED <<config, redis_client, EXIT_FLAG, pc, frames,
                   exit_status, batch, codec, writer>>

(***************************************************************************)
(* WaveFuncHashHandler (lines 91-141), built on the client of init_redis.  *)
(***************************************************************************)
LexLess(p, q) ==
    \/ p[1] < q[1]
    \/ p[1] = q[1] /\ p[2] < q[2]
    \/ p[1] = q[1] /\ p[2] = q[2] /\ p[3] < q[3]

\* lines 114-119: the dict of the three loops; a later coordinate that
\* produces a field already in the dict overwrites it
BatchData(psi, t, temp) ==
    LET fieldOf(p) == gen_field(p[1], p[2], p[3], t, temp)
        lastOf(f) == CHOOSE p \in DOMAIN psi :
                        /\ fieldOf(p) = f
                        /\ \A q \in DOMAIN psi :
                              fieldOf(q) = f => (q = p \/ LexLess(q, p))
    IN  [f \in {fieldOf(p) : p \in DOMAIN psi} |-> c2b(psi[lastOf(f)])]

\* a batch that arms the expiry whether or not the bulk write succeeded
batch_save_arm_anyway(st, psi, t, temp, o1, o2) ==
    LET data == BatchData(psi, t, temp)
        h1   == IF Applied(o1) THEN HMSet(st.hash, data) ELSE st.hash
        t2   == IF temp /\ Applied(o2) THEN Expire(h1, st.ttl) ELSE st.ttl
        bad  == Raised(o1) \/ (temp /\ Raised(o2))
    IN  [st  |-> [st EXCEPT !.hash = h1, !.ttl = t2],
         out |-> IF bad THEN "raise" ELSE "ok",
         val |-> IF bad THEN <<>>
                 ELSE <<[count |-> Cardinality(DOMAIN data), temp |-> temp]>>]

\* lines 120-122: o1 is the outcome of hmset, o2 of expire
batch_save(st, psi, t, temp, o1, o2) ==
    LET data == BatchData(psi, t, temp)
        h1   == IF Applied(o1) THEN HMSet(st.hash, data) ELSE st.hash
        t2   == IF temp /\ ~Raised(o1) /\ Applied(o2)
                THEN Expire(h1, st.ttl) ELSE st.ttl
        bad  == Raised(o1) \/ (temp /\ Raised(o2))
    IN  [st  |-> [st EXCEPT !.hash = h1, !.ttl = t2],
         out |-> IF bad THEN "raise" ELSE "ok",
         val |-> IF bad THEN <<>>
                 ELSE <<[count |-> Cardinality(DOMAIN data), temp |-> temp]>>]

BatchSave ==
    /\ MainRuns /\ pc = "ready"
    /\ \E shape \in Shapes, seed \in PsiSeeds, t \in BatchTimes, temp \in BOOLEAN,
          o1 \in WriteOutcomes, o2 \in WriteOutcomes :
         /\ (temp /\ ~Raised(o1)) \/ o2 = "ok"
         /\ LET psi == Psi(shape, seed)
                r   == batch_save(Snapshot, psi, t, temp, o1, o2)
            IN  /\ SetStore(r.st)
                /\ last' = Op("batch_save", <<shape, seed, t, temp, o1, o2>>, r.out,
                              r.val, Snapshot, 0)
                /\ batch' = IF r.out = "ok"
                            THEN <<[psi |-> psi, t |-> t, temp |-> temp]>>
                            ELSE <<>>
         /\ UsePool(o1)
    /\ UNCHANGED <<config, redis_client, EXIT_FLAG, pc, frames,
                   exit_status, codec, writer>>

\* Python's "not val" for the reply of hget: nil or empty bytes
Falsy(reply) == reply = <<>> \/ reply[1] = <<>>

\* a read that answers zero for a missing field
get_point_default(h, x, y, z, t, temp, o) ==
    LET f   == gen_field(x, y, z, t, temp)
        val == HGet(h, f)
    IN  IF Raised(o) THEN [out |-> "raise:ConnectionError", val |-> <<>>]
        ELSE IF Falsy(val)
        THEN [out |-> "ok", val |-> <<Cplx(Dbl(FALSE, 0, 0), Dbl(FALSE, 0, 0))>>]
        ELSE [out |-> "ok", val |-> <<b2c(val[1])>>]

\* lines 126-129
get_point(h, x, y, z, t, temp, o) ==
    LET f   == gen_field(x, y, z, t, temp)
        val == HGet(h, f)
    IN  IF Raised(o) THEN [out |-> "raise:ConnectionError", val |-> <<>>]
        ELSE IF Falsy(val) THEN [out |-> "raise:KeyError", val |-> <<>>]
        ELSE IF ~Decodable(val[1]) THEN [out |-> "raise:ValueError", val |-> <<>>]
        ELSE [out |-> "ok", val |-> <<b2c(val[1])>>]

GetPoint ==
    /\ MainRuns /\ pc = "ready"
    /\ \E p \in PointCoords, t \in ReadTimes, temp \in BOOLEAN, o \in ReadOutcomes :
         LET r == get_point(hash, p[1], p[2], p[3], t, temp, o)
         IN  /\ last' = Op("get_point", <<p[1], p[2], p[3], t, temp>>, r.out,
                           r.val, Snapshot, 0)
             /\ UsePool(o)
    /\ UNCHANGED <<storeVars, redis_client, EXIT_FLAG, pc, frames, exit_status,
                   batch, codec, writer>>

\* lines 133-141: o1 is the outcome of hlen, o2 of memory_usage (which
\* answers None for a missing key, and None / 1024 raises TypeError)
get_stats(st, used, o1, o2, oInfo, oClean) ==
    LET field_cnt == HLen(st.hash)
        c == check_memory_usage(st, used, oInfo, oClean)
    IN  IF Raised(o1) \/ Raised(o2) \/ DOMAIN st.hash = {}
        THEN [st |-> st, out |-> "raise", val |-> <<>>, evictions |-> 0]
        ELSE [st |-> c.st, out |-> c.out,
              val |-> IF c.out = "ok"
                      THEN <<[total_points |-> field_cnt,
                              sys_usage_pct |-> c.val[1]]>>
                      ELSE <<>>,
              evictions |-> c.evictions]

GetStats ==
    /\ MainRuns /\ pc = "ready"
    /\ \E used \in MemLevels, o1 \in ReadOutcomes, o2 \in ReadOutcomes,
          oInfo \in ReadOutcomes :
       \E oClean \in CleanChoices(used) :
         /\ Raised(o1) => (o2 = "ok" /\ oInfo = "ok" /\ oClean = NoClean)
         /\ Raised(o2) => (oInfo = "ok" /\ oClean = NoClean)
         /\ LET r == get_stats(Snapshot, used, o1, o2, oInfo, oClean)
            IN  /\ SetStore(r.st)
                /\ last' = Op("get_stats", <<used>>, r.out, r.val,
                              Snapshot, r.evictions)
         /\ UsePool(o1)
    /\ UNCHANGED <<config, redis_client, EXIT_FLAG, pc, frames,
                   exit_status, batch, codec, writer>>

(***************************************************************************)
(* graceful_exit (lines 24-37), one bytecode boundary at a time: Python    *)
(* runs a signal handler between two instructions of the main thread, so   *)
(* an invocation may be interrupted by the next one at each step.          *)
(***************************************************************************)
NewFrame(n, kind) ==
    [n |-> n, kind |-> kind, pc |-> "ge_check", temp_fields |-> {},
     temp_keys |-> {}]

Top == frames[Len(frames)]

InHandler(at) == Alive /\ frames # <<>> /\ Top.pc = at

Goto(at) == frames' = [frames EXCEPT ![Len(frames)].pc = at]

\* lines 40-41: SIGINT or SIGTERM is delivered
Signal ==
    /\ Alive
    /\ counts.invocations < MaxSignals
    /\ frames' = Append(frames, NewFrame(counts.invocations + 1, "signal"))
    /\ counts' = [counts EXCEPT !.invocations = @ + 1, !.signals = @ + 1]
    /\ last' = Quiet
    /\ UNCHANGED <<storeVars, redis_client, EXIT_FLAG, pool, pc, exit_status,
                   batch, codec, writer>>

\* graceful_exit(signal.SIGINT, None) called by the program itself (line 180)
GracefulExitCall ==
    /\ CallerReady
    /\ counts.invocations < MaxSignals
    /\ frames' = Append(frames, NewFrame(counts.invocations + 1, "call"))
    /\ counts' = [counts EXCEPT !.invocations = @ + 1]
    /\ last' = Quiet
    /\ UNCHANGED <<storeVars, redis_client, EXIT_FLAG, pool, pc, exit_status,
                   batch, codec, writer>>

\* a handler without the guard of line 26
GE_CheckUnguarded ==
    /\ InHandler("ge_check")
    /\ Goto("ge_set")
    /\ last' = Quiet
    /\ UNCHANGED <<storeVars, redis_client, EXIT_FLAG, pool, pc, exit_status,
                   batch, counts, codec, writer>>

\* line 26: if EXIT_FLAG: return
GE_Check ==
    /\ InHandler("ge_check")
    /\ IF EXIT_FLAG
       THEN /\ frames' = SubSeq(frames, 1, Len(frames) - 1)
            /\ counts' = [counts EXCEPT !.noops = @ + 1]
       ELSE /\ Goto("ge_set")
            /\ UNCHANGED counts
    /\ last' = Quiet
    /\ UNCHANGED <<storeVars, redis_client, EXIT_FLAG, pool, pc, exit_status,
                   batch, codec, writer>>

\* line 27: EXIT_FLAG = True
GE_Set ==
    /\ InHandler("ge_set")
    /\ EXIT_FLAG' = TRUE
    /\ Goto("ge_disconnect")
    /\ counts' = [counts EXCEPT !.acted = @ \cup {Top.n}]
    /\ last' = Quiet
    /\ UNCHANGED <<storeVars, redis_client, pool, pc, exit_status, batch,
                   codec, writer>>

\* lines 30-31, and 34-35 when disconnect raises
GE_Disconnect ==
    /\ InHandler("ge_disconnect")
    /\ IF redis_client = "r"
       THEN \E o \in ReadOutcomes :
              /\ pool' = IF Raised(o) THEN pool ELSE 0
              /\ counts' = IF Raised(o)
                           THEN [counts EXCEPT !.caught = @ + 1]
                           ELSE [counts EXCEPT !.disconnects = @ + 1]
              /\ Goto(IF Raised(o) THEN "ge_exit" ELSE "ct_scan")
       ELSE /\ Goto("ct_scan")
            /\ UNCHANGED <<pool, counts>>
    /\ last' = Quiet
    /\ UNCHANGED <<storeVars, redis_client, EXIT_FLAG, pc, exit_status, batch,
                   codec, writer>>

\* a cleanup whose error leaves graceful_exit: the process dies of it
CT_ScanUncaught ==
    /\ InHandler("ct_scan")
    /\ redis_client = "r"
    /\ \E o \in ReadOutcomes :
         /\ pool' = PoolAfter(pool, o)
         /\ counts' = [counts EXCEPT !.cleanups = @ + 1,
                                     !.opens = @ + Opens(pool, o)]
         /\ IF Raised(o)
            THEN /\ frames' = <<>>
                 /\ pc' = "exited"
                 /\ exit_status' = <<1>>
            ELSE /\ frames' = [frames EXCEPT
                                 ![Len(frames)].pc = "ct_hdel",
                                 ![Len(frames)].temp_fields = HScanTemp(hash)]
                 /\ UNCHANGED <<pc, exit_status>>
    /\ last' = Quiet
    /\ UNCHANGED <<storeVars, redis_client, EXIT_FLAG, batch, codec, writer>>

\* line 32 entering clean_temp_data, lines 74-75
CT_Scan ==
    /\ InHandler("ct_scan")
    /\ IF redis_client = "None"
       THEN /\ Goto("ge_exit")
            /\ counts' = [counts EXCEPT !.cleanups = @ + 1]
            /\ UNCHANGED pool
       ELSE \E o \in ReadOutcomes :
              /\ pool' = PoolAfter(pool, o)
              /\ counts' = [counts EXCEPT
                              !.cleanups = @ + 1,
                              !.opens = @ + Opens(pool, o),
                              !.caught = @ + (IF Raised(o) THEN 1 ELSE 0)]
              /\ frames' = [frames EXCEPT
                              ![Len(frames)].pc =
                                  IF Raised(o) THEN "ge_exit" ELSE "ct_hdel",
                              ![Len(frames)].temp_fields =
                                  IF Raised(o) THEN {} ELSE HScanTemp(hash)]
    /\ last' = Quiet
    /\ UNCHANGED <<storeVars, redis_client, EXIT_FLAG, pc, exit_status, batch,
                   codec, writer>>

\* line 76
CT_HDel ==
    /\ InHandler("ct_hdel")
    /\ IF Top.temp_fields = {}
       THEN /\ Goto("ct_keys")
            /\ UNCHANGED <<hash, ttl, tempKeys, pool, counts>>
       ELSE \E o \in WriteOutcomes :
              /\ SetStore(CleanHDel(Snapshot, Top.temp_fields, o))
              /\ pool' = PoolAfter(pool, o)
              /\ counts' = [counts EXCEPT
                              !.opens = @ + Opens(pool, o),
                              !.caught = @ + (IF Raised(o) THEN 1 ELSE 0)]
              /\ Goto(IF Raised(o) THEN "ge_exit" ELSE "ct_keys")
    /\ last' = Quiet
    /\ UNCHANGED <<config, redis_client, EXIT_FLAG, pc,
                   exit_status, batch, codec, writer>>

\* line 77
CT_Keys ==
    /\ InHandler("ct_keys")
    /\ \E o \in ReadOutcomes :
         /\ pool' = PoolAfter(pool, o)
         /\ counts' = [counts EXCEPT
                         !.opens = @ + Opens(pool, o),
                         !.caught = @ + (IF Raised(o) THEN 1 ELSE 0)]
         /\ frames' = [frames EXCEPT
                         ![Len(frames)].pc =
                             IF Raised(o) THEN "ge_exit" ELSE "ct_delete",
                         ![Len(frames)].temp_keys =
                             IF Raised(o) THEN {} ELSE tempKeys]
    /\ last' = Quiet
    /\ UNCHANGED <<storeVars, redis_client, EXIT_FLAG, pc, exit_status, batch,
                   codec, writer>>

\* line 78
CT_Delete ==
    /\ InHandler("ct_delete")
    /\ IF Top.temp_keys = {}
       THEN UNCHANGED <<hash, ttl, tempKeys, pool, counts>>
       ELSE \E o \in WriteOutcomes :
              /\ SetStore(CleanDelete(Snapshot, Top.temp_keys, o))
              /\ pool' = PoolAfter(pool, o)
              /\ counts' = [counts EXCEPT
                              !.opens = @ + Opens(pool, o),
                              !.caught = @ + (IF Raised(o) THEN 1 ELSE 0)]
    /\ Goto("ge_exit")
    /\ last' = Quiet
    /\ UNCHANGED <<config, redis_client, EXIT_FLAG, pc,
                   exit_status, batch, codec, writer>>

\* line 37: sys.exit(0) in the finally clause; SystemExit unwinds every
\* frame below (none of them catches it: line 34 and line 178 catch
\* Exception only, and an outer finally exits with 0 again)
GE_Exit ==
    /\ InHandler("ge_exit")
    /\ exit_status' = <<0>>
    /\ frames' = <<>>
    /\ pc' = "exited"
    /\ last' = Quiet
    /\ UNCHANGED <<storeVars, redis_client, EXIT_FLAG, pool, batch, counts,
                   codec, writer>>

GracefulExitStep ==
    \/ GE_Check \/ GE_Set \/ GE_Disconnect
    \/ CT_Scan \/ CT_HDel \/ CT_Keys \/ CT_Delete
    \/ GE_Exit

(***************************************************************************)
(* The server's side: the clock of the expiry timer.                       *)
(***************************************************************************)
Tick ==
    /\ Returned
    /\ ttl > 0
    /\ IF TickSecs >= ttl
       THEN /\ hash' = EmptyHash
            /\ ttl' = 0
            /\ batch' = <<>>
            /\ last' = Op("tick", <<>>, "expired", <<>>, Snapshot, 0)
       ELSE /\ ttl' = ttl - TickSecs
            /\ last' = Quiet
            /\ UNCHANGED <<hash, batch>>
    /\ UNCHANGED <<tempKeys, config, procVars, counts, codec, writer>>

\* the caller takes the result of the call that just ended
Return ==
    /\ ~Returned
    /\ last' = Quiet
    /\ UNCHANGED <<storeVars, procVars, batch, counts, codec, writer>>

Next ==
    \/ InitPing \/ InitConfig \/ InitPublish
    \/ CheckMemoryUsage \/ CleanTempData
    \/ BatchSave \/ GetPoint \/ GetStats
    \/ Signal \/ GracefulExitCall
    \/ GE_Check \/ GE_Set \/ GE_Disconnect
    \/ CT_Scan \/ CT_HDel \/ CT_Keys \/ CT_Delete
    \/ GE_Exit
    \/ Tick \/ Return

Spec == Init /\ [][Next]_vars

\* a started handler runs on: the interpreter executes its next instruction,
\* and every command returns or raises within socket_timeout (lines 13, 51)
FairSpec == Spec /\ WF_vars(GracefulExitStep \/ Return)

(***************************************************************************)
(* main (lines 156-180).  The grid of DEFAULT_GRID has 64 points per axis  *)
(* in the code and two here; the point read, (32, 32, 32), is the upper    *)
(* middle of each axis, here (1, 1, 1).                                    *)
(***************************************************************************)
DEFAULT_GRID == <<2, 2, 2>>

MainPoint == <<1, 1, 1>>

\* t0 = 0.01 in units of 10^-5
T0 == 1000

\* the parameters of generate_wave_func (line 81)
GenerateParams == {"grid_shape", "t_step"}

\* the keyword arguments main passes at line 161
MainKeywords == {"time_step"}

\* lines 81-88, called with keyword arguments: a keyword that names no
\* parameter raises TypeError before the body runs
generate_wave_func(keywords) ==
    IF keywords \subseteq GenerateParams
    THEN [out |-> "ok", val |-> <<Psi(DEFAULT_GRID, 0)>>]
    ELSE [out |-> "raise:TypeError", val |-> <<>>]

\* lines 159-175 on the client of init_redis: the calls in program order up
\* to the first that raises.  o names the outcome of each store command.
main_work(st, o) ==
    LET g == generate_wave_func(MainKeywords)
        b == batch_save(st, g.val[1], T0, FALSE, o.hmset, "ok")
        p == get_point(b.st.hash, MainPoint[1], MainPoint[2], MainPoint[3],
                       T0, FALSE, o.hget)
        s == get_stats(b.st, o.used, o.hlen, o.memory_usage, o.info, o.clean)
    IN  IF g.out # "ok"
        THEN [st |-> st, out |-> g.out, error |-> "generate_wave_func",
              steps |-> <<>>]
        ELSE IF b.out # "ok"
        THEN [st |-> b.st, out |-> b.out, error |-> "batch_save",
              steps |-> <<"generate_wave_func">>]
        ELSE IF p.out # "ok"
        THEN [st |-> b.st, out |-> p.out, error |-> "get_point",
              steps |-> <<"generate_wave_func", "batch_save">>]
        ELSE IF s.out # "ok"
        THEN [st |-> s.st, out |-> s.out, error |-> "get_stats",
              steps |-> <<"generate_wave_func", "batch_save", "get_point">>]
        ELSE [st |-> s.st, out |-> "ok", error |-> "none",
              steps |-> <<"generate_wave_func", "batch_save", "get_point",
                          "get_stats">>]

MainOutcomes ==
    [hmset : WriteOutcomes, hget : ReadOutcomes, used : MemLevels,
     hlen : ReadOutcomes, memory_usage : ReadOutcomes, info : ReadOutcomes,
     clean : CleanOutcomes]

\* lines 159-175; line 158 is InitPing, InitConfig and InitPublish.  When
\* every call returns, main is in the loop of lines 176-177, which sleeps
\* until a handler has set EXIT_FLAG.
MainWork ==
    /\ MainRuns /\ pc = "ready"
    /\ \E o \in MainOutcomes :
         LET r == main_work(Snapshot, o)
         IN  /\ SetStore(r.st)
             /\ pc' = IF r.out = "ok" THEN "main_wait" ELSE "main_failed"
             /\ counts' = [counts EXCEPT !.error = r.error]
             /\ last' = Op("main", r.steps, r.out, <<>>, Snapshot, 0)
             /\ pool' = IF r.steps = <<>> THEN pool ELSE 1
    /\ UNCHANGED <<config, redis_client, EXIT_FLAG, frames, exit_status,
                   batch, codec, writer>>

\* an error path that reports the error and returns from main
MainExceptSilent ==
    /\ MainRuns /\ pc \in {"init_failed", "main_failed"}
    /\ pc' = "main_done"
    /\ counts' = [counts EXCEPT !.reported = @ + 1]
    /\ last' = Quiet
    /\ UNCHANGED <<storeVars, redis_client, EXIT_FLAG, pool, frames,
                   exit_status, batch, codec, writer>>

\* lines 178-180: except Exception: print the error, call graceful_exit
MainExcept ==
    /\ MainRuns /\ pc \in {"init_failed", "main_failed"}
    /\ pc' = "main_except"
    /\ frames' = Append(frames, NewFrame(counts.invocations + 1, "call"))
    /\ counts' = [counts EXCEPT !.invocations = @ + 1, !.reported = @ + 1]
    /\ last' = Quiet
    /\ UNCHANGED <<storeVars, redis_client, EXIT_FLAG, pool, exit_status,
                   batch, codec, writer>>

NextMain ==
    \/ InitPing \/ InitConfig \/ InitPublish
    \/ MainWork \/ MainExcept
    \/ Signal
    \/ GE_Check \/ GE_Set \/ GE_Disconnect
    \/ CT_Scan \/ CT_HDel \/ CT_Keys \/ CT_Delete
    \/ GE_Exit
    \/ Return

SpecMain == Init /\ [][NextMain]_vars

\* the main thread runs on to its next statement, and so does a handler
FairMain == SpecMain /\ WF_vars(GracefulExitStep \/ Return \/ MainExcept)

(***************************************************************************)
(* A second process that runs batch_save (lines 111-122) on the same root  *)
(* hash through a client of its own, command by command, while this        *)
(* process runs and shuts down.                                            *)
(***************************************************************************)
\* lines 112-119: the batch is built and about to be sent, while the
\* shutdown of this process is under way
WriterStart ==
    /\ writer.pc = "idle"
    /\ exit_status = <<>> /\ pc = "ready" /\ frames # <<>>
    /\ \E t \in BatchTimes, temp \in BOOLEAN :
         writer' = [pc |-> "hmset",
                    data |-> BatchData(Psi(WriterShape, WriterSeed), t, temp),
                    temp |-> temp, during |-> "none"]
    /\ UNCHANGED <<storeVars, procVars, last, batch, counts, codec>>

\* line 120: the server runs the writer's hmset
WriterHMSet ==
    /\ writer.pc = "hmset"
    /\ hash' = HMSet(hash, writer.data)
    /\ writer' = [writer EXCEPT
                    !.pc = IF writer.temp THEN "expire" ELSE "done",
                    !.during = IF frames # <<>> THEN "shutdown" ELSE "exited"]
    /\ UNCHANGED <<ttl, tempKeys, config, procVars, last, batch, counts, codec>>

\* line 121: the server runs the writer's expire
WriterExpire ==
    /\ writer.pc = "expire"
    /\ ttl' = Expire(hash, ttl)
    /\ writer' = [writer EXCEPT !.pc = "done"]
    /\ UNCHANGED <<hash, tempKeys, config, procVars, last, batch, counts, codec>>

WriterStep == WriterHMSet \/ WriterExpire

NextShared ==
    \/ InitPing \/ InitConfig \/ InitPublish
    \/ BatchSave
    \/ Signal
    \/ GE_Check \/ GE_Set \/ GE_Disconnect
    \/ CT_Scan \/ CT_HDel \/ CT_Keys \/ CT_Delete
    \/ GE_Exit
    \/ WriterStart \/ WriterHMSet \/ WriterExpire
    \/ Return

SpecShared == Init /\ [][NextShared]_vars

\* the handler runs on as in FairSpec; the server runs a command it received
FairShared ==
    /\ SpecShared
    /\ WF_vars(GracefulExitStep \/ Return)
    /\ WF_vars(WriterStep)

(***************************************************************************)
(* The codec functions applied to inputs of their own.                     *)
(***************************************************************************)
CodecDbls ==
    { Dbl(FALSE, 0, 0), Dbl(TRUE, 0, 0), Dbl(FALSE, 500000, 0),
      Dbl(TRUE, 250000, 0), Dbl(FALSE, 123456, 789012), Dbl(FALSE, 488, 281250),
      Dbl(FALSE, 1464, 843750), Dbl(TRUE, 999999, 999999), Dbl(TRUE, 0, 4),
      Dbl(FALSE, 123456005, 4999), Dbl(TRUE, 999999999, 999949) }

CodecValues == {Cplx(re, im) : re \in CodecDbls, im \in CodecDbls}

KeyArgs ==
    {<<x, y, z, t, temp>> :
        x \in {-1, 1, 11}, y \in {1, 11}, z \in {0, 1},
        t \in {-1, 0, 1000, 1004, 1006, 3125}, temp \in BOOLEAN}

\* b2c(c2b(c))
CodecRoundTrip ==
    /\ codec.fn = "none"
    /\ \E c \in CodecValues :
         codec' = [fn |-> "roundtrip", a |-> c, b |-> c2b(c),
                   ra |-> b2c(c2b(c)), rb |-> <<>>]
    /\ UNCHANGED <<storeVars, procVars, last, batch, counts, writer>>

\* gen_field on two argument tuples
CodecGenField ==
    /\ codec.fn = "none"
    /\ \E a \in KeyArgs, b \in KeyArgs :
         codec' = [fn |-> "gen_field", a |-> a, b |-> b,
                   ra |-> gen_field(a[1], a[2], a[3], a[4], a[5]),
                   rb |-> gen_field(b[1], b[2], b[3], b[4], b[5])]
    /\ UNCHANGED <<storeVars, procVars, last, batch, counts, writer>>

NextCodec == CodecRoundTrip \/ CodecGenField

SpecCodec == Init /\ [][NextCodec]_vars

(***************************************************************************)
(* Properties.                                                             *)
(***************************************************************************)
IsTempField(f) == StartsWith(f, TempPrefix)

IsFormalField(f) == StartsWith(f, FormalPrefix)

TempFieldsOf(h) == {f \in DOMAIN h : IsTempField(f)}

FormalFieldsOf(h) == {f \in DOMAIN h : IsFormalField(f)}

\* every formal_ field of h0 is in h1 with the same value
FormalKept(h0, h1) ==
    \A f \in FormalFieldsOf(h0) : f \in DOMAIN h1 /\ h1[f] = h0[f]

\* clean_temp_data ran on an initialised client and returned normally:
\* called by the program, or by a check_memory_usage that returned
CleanReturned ==
    /\ redis_client = "r"
    /\ last.out = "ok"
    /\ \/ last.op = "clean_temp_data"
       \/ last.op = "check_memory_usage" /\ last.evictions = 1

\* C1: whenever clean_temp_data returns normally on an initialised client,
\* the root hash holds no field whose name starts with temp_, and every
\* formal_ field present before the call is still present with its value.
C1_EvictionCorrect ==
    CleanReturned =>
        /\ TempFieldsOf(hash) = {}
        /\ FormalKept(last.pre.hash, hash)

\* clean_temp_data returned on a hash that held temp_ and formal_ fields
C1_Witness ==
    /\ CleanReturned
    /\ last.op = "clean_temp_data"
    /\ TempFieldsOf(last.pre.hash) # {}
    /\ FormalFieldsOf(last.pre.hash) # {}

\* 85% of the budget or more, on the reading in KiB
AtOrAbove85(used) == used * 100 >= 85 * (MAX_MEMORY_MB * 1024)

CheckedMemory ==
    last.op = "check_memory_usage" /\ redis_client = "r" /\ last.args # <<>>

\* C2: check_memory_usage runs clean_temp_data before it returns when the
\* measured usage is at least 85% of the budget; below 85% it deletes no
\* field and no key; it returns the usage percentage and runs the eviction
\* at most once per call.
C2_BudgetTrigger ==
    CheckedMemory =>
        /\ last.evictions <= 1
        /\ last.out = "ok" => last.val = <<last.args[1] * 100>>
        /\ (last.out = "ok" /\ AtOrAbove85(last.args[1])) =>
               (last.evictions = 1 /\ TempFieldsOf(hash) = {})
        /\ ~AtOrAbove85(last.args[1]) =>
               (last.evictions = 0 /\ Snapshot = last.pre)

\* a check at exactly 85% returned after evicting the temp_ fields
C2_Witness ==
    /\ CheckedMemory
    /\ last.out = "ok"
    /\ last.args[1] * 100 = 85 * (MAX_MEMORY_MB * 1024)
    /\ last.evictions = 1
    /\ TempFieldsOf(last.pre.hash) # {}
    /\ TempFieldsOf(hash) = {}

\* C3 as stated: every invocation of graceful_exit after the first is a
\* no-op, so only invocation 1 ever gets past the guard of line 26.
C3_OnlyFirstActs == \A n \in counts.acted : n = 1

\* C3 (amended): however many invocations of graceful_exit there are, and
\* wherever a signal interrupts an earlier invocation, exactly one of them
\* gets past the guard, the others return without doing anything,
\* connection release and temp cleanup each happen at most once, and the
\* process ends as after a single invocation: status 0, EXIT_FLAG set, and
\* (when no command failed) no temp_ field and no quantum:temp:* key left.
C3_ShutdownOnce ==
    /\ counts.disconnects <= 1
    /\ counts.cleanups <= 1
    /\ Cardinality(counts.acted) <= 1
    /\ counts.noops + Cardinality(counts.acted) <= counts.invocations
    /\ EXIT_FLAG => Cardinality(counts.acted) = 1
    /\ \A i \in 1..Len(frames) :
          frames[i].pc \notin {"ge_check", "ge_set"} =>
              counts.acted = {frames[i].n}
    /\ exit_status # <<>> =>
          /\ exit_status = <<0>>
          /\ EXIT_FLAG
          /\ Cardinality(counts.acted) = 1
          /\ (redis_client = "r" /\ counts.caught = 0) =>
                /\ counts.disconnects = 1
                /\ counts.cleanups = 1
                /\ TempFieldsOf(hash) = {}
                /\ tempKeys = {}

\* the process exited after two or more invocations, one of them a no-op
C3_Witness ==
    /\ exit_status = <<0>>
    /\ counts.invocations >= 2
    /\ counts.noops >= 1
    /\ counts.disconnects = 1
    /\ counts.cleanups = 1

\* C4: once graceful_exit has been invoked, whatever error the release of
\* the connection pool or clean_temp_data raises, the error does not leave
\* graceful_exit and the process terminates with exit status 0.
C4_ShutdownCompletes ==
    /\ [](exit_status = <<>> \/ exit_status = <<0>>)
    /\ (frames # <<>>) ~> (exit_status = <<0>>)

\* the process exited with status 0 after an error was caught on the way
C4_Witness ==
    /\ exit_status = <<0>>
    /\ counts.caught >= 1
    /\ counts.acted = {1}

\* C5: once the TTL of a temp batch has elapsed with no further write, every
\* field of that batch is gone and every formal_ field that was in the store
\* before the expiry is still present.
C5_ExpiryKeepsFormal ==
    (last.op = "tick" /\ last.out = "expired") =>
        /\ TempFieldsOf(hash) = {}
        /\ FormalKept(last.pre.hash, hash)

GotPoint == last.op = "get_point"

PointField == gen_field(last.args[1], last.args[2], last.args[3],
                        last.args[4], last.args[5])

\* C6: get_point raises KeyError and returns no value when no field with
\* exactly that key is in the root hash, also when the same coordinate and
\* time are stored under the other namespace; it returns a value only when
\* the key is present.  (A read the server did not answer raises the
\* connection error instead.)
C6_NotFound ==
    GotPoint =>
        /\ PointField \notin DOMAIN hash =>
              /\ last.val = <<>>
              /\ last.out \in {"raise:KeyError", "raise:ConnectionError"}
        /\ last.out = "raise:KeyError" => PointField \notin DOMAIN hash
        /\ last.val # <<>> => (last.out = "ok" /\ PointField \in DOMAIN hash)

\* a temp read raised KeyError while the formal field of the same
\* coordinate and time is stored
C6_Witness ==
    /\ GotPoint
    /\ last.args[5] = TRUE
    /\ last.out = "raise:KeyError"
    /\ gen_field(last.args[1], last.args[2], last.args[3], last.args[4], FALSE)
           \in DOMAIN hash

\* a point of the latest formal batch is read back at the batch's time,
\* with no expiry since the batch, and the server answered
ReadBack ==
    /\ GotPoint
    /\ batch # <<>>
    /\ ~batch[1].temp
    /\ last.args[5] = FALSE
    /\ last.args[4] = batch[1].t
    /\ <<last.args[1], last.args[2], last.args[3]>> \in DOMAIN batch[1].psi
    /\ last.out # "raise:ConnectionError"

Supplied == batch[1].psi[<<last.args[1], last.args[2], last.args[3]>>]

\* C7 as stated: the value read back is exactly the value supplied.
C7_ExactReadBack ==
    ReadBack => (last.out = "ok" /\ CplxEq(last.val[1], Supplied))

\* a multiple of 10^-10 at most half of 10^-10 away
RoundedTo10(v, w) == v.lo % 100 = 0 /\ DblWithin(v, w, 50)

\* C7 (amended): after batch_save with temp=false, get_point of every
\* coordinate of the grid returns the supplied value with each component
\* rounded to 10 fractional digits: exactly the supplied value when it has
\* no more digits than that, and within 5e-11 of it otherwise.
C7_RoundedReadBack ==
    ReadBack =>
        /\ last.out = "ok"
        /\ RoundedTo10(last.val[1].re, Supplied.re)
        /\ RoundedTo10(last.val[1].im, Supplied.im)
        /\ (Supplied.re.lo % 100 = 0 /\ Supplied.im.lo % 100 = 0) =>
               CplxEq(last.val[1], Supplied)

\* a point of a two by one by two grid read back, rounded in the process
C7_Witness ==
    /\ ReadBack
    /\ last.out = "ok"
    /\ Cardinality(DOMAIN batch[1].psi) = 4
    /\ ~CplxEq(last.val[1], Supplied)

FractionLen(s) == Len(s) - (CHOOSE d \in Positions(s, ".") : TRUE)

\* C8: b2c(c2b(c)) differs from c by at most 1e-9 on the real and on the
\* imaginary component; c2b prints each component with 10 fractional
\* digits, the two joined by one separator.
C8_RoundTrip ==
    codec.fn = "roundtrip" =>
        /\ CplxWithin(codec.ra, codec.a, 1000)
        /\ Cardinality(Positions(codec.b, ",")) = 1
        /\ LET k == CHOOSE i \in Positions(codec.b, ",") : TRUE
           IN  /\ FractionLen(SubSeq(codec.b, 1, k - 1)) = 10
               /\ FractionLen(SubSeq(codec.b, k + 1, Len(codec.b))) = 10

\* a value with more than 10 fractional digits went through the codec
C8_Witness ==
    /\ codec.fn = "roundtrip"
    /\ ~CplxEq(codec.ra, codec.a)
    /\ CplxWithin(codec.ra, codec.a, 1000)

\* C9 as stated: two argument tuples that differ anywhere, t included, get
\* different field names.
C9_Injective ==
    codec.fn = "gen_field" => (codec.a # codec.b => codec.ra # codec.rb)

\* t in units of 10^-5 rounded to the 4th decimal, in units of 10^-4
Round4(t) ==
    LET m == Abs(t)
        q == m \div 10
        r == m % 10
        n == q + (IF r > 5 \/ (r = 5 /\ q % 2 = 1) THEN 1 ELSE 0)
    IN  IF t < 0 THEN -n ELSE n

\* C9 (amended): gen_field returns the same name for the same arguments,
\* and different names for two argument tuples that differ in x, y, z or
\* temp, or whose t differ after rounding to 4 decimal places; two tuples
\* that differ only in digits of t beyond the 4th decimal may share a name.
C9_InjectiveUpToRounding ==
    codec.fn = "gen_field" =>
        /\ codec.a = codec.b => codec.ra = codec.rb
        /\ (\/ \E i \in {1, 2, 3, 5} : codec.a[i] # codec.b[i]
            \/ Round4(codec.a[4]) # Round4(codec.b[4])) => codec.ra # codec.rb

\* names of x=1, y=11 and of x=11, y=1 were compared
C9_Witness ==
    /\ codec.fn = "gen_field"
    /\ codec.a[1] = 1 /\ codec.a[2] = 11
    /\ codec.b[1] = 11 /\ codec.b[2] = 1
    /\ codec.a[3] = codec.b[3] /\ codec.a[4] = codec.b[4]
    /\ codec.a[5] = codec.b[5]
    /\ codec.ra # codec.rb

GotStats == last.op = "get_stats"

\* C10 as stated: get_stats leaves the fields of the root hash and every
\* other key of the store unchanged.
C10_StatsReadOnly == GotStats => Snapshot = last.pre

\* C10 (amended): get_stats leaves the store unchanged when the measured
\* usage is below 85% of the budget; at 85% or more it runs the eviction of
\* check_memory_usage, which removes temp_ fields and quantum:temp:* keys
\* and leaves every formal_ field as it was.
C10_StatsEvictOnlyTemp ==
    GotStats =>
        /\ ~AtOrAbove85(last.args[1]) => Snapshot = last.pre
        /\ last.evictions = 0 => Snapshot = last.pre
        /\ FormalKept(last.pre.hash, hash)
        /\ FormalFieldsOf(hash) = FormalFieldsOf(last.pre.hash)
        /\ TempFieldsOf(hash) \subseteq TempFieldsOf(last.pre.hash)
        /\ tempKeys \subseteq last.pre.tempKeys
        /\ (last.out = "ok" /\ AtOrAbove85(last.args[1])) =>
               TempFieldsOf(hash) = {}

\* get_stats returned at 85% or more on a hash with temp_ and formal_
\* fields, and the temp_ fields are gone
C10_Witness ==
    /\ GotStats
    /\ last.out = "ok"
    /\ AtOrAbove85(last.args[1])
    /\ TempFieldsOf(last.pre.hash) # {}
    /\ FormalFieldsOf(last.pre.hash) # {}
    /\ TempFieldsOf(hash) = {}

\* C11: whenever the shutdown sequence has run to process exit, wherever
\* the signal arrived (also inside init_redis, between the opening of the
\* connection and the assignment of the global client), every connection
\* the process opened has been released exactly once and none is open: no
\* connection is opened again after the release, not by the temp cleanup.
C11_ConnectionsReleased ==
    exit_status # <<>> =>
        /\ pool = 0
        /\ counts.opens = counts.disconnects

SavedBatch == last.op = "batch_save"

GridSize(shape) == shape[1] * shape[2] * shape[3]

\* every field of the batch of last.args is in the root hash with its value
BatchStored ==
    LET psi == Psi(last.args[1], last.args[2])
    IN  \A p \in DOMAIN psi :
          LET f == gen_field(p[1], p[2], p[3], last.args[3], last.args[4])
          IN  f \in DOMAIN hash /\ hash[f] = c2b(psi[p])

\* C12: when the hmset of batch_save fails, batch_save raises, returns no
\* dictionary and no count, and that call does not arm the expiry timer;
\* batch_save returns its dictionary only after the hmset of all nx*ny*nz
\* fields succeeded, and then count is nx*ny*nz.
C12_BatchWhole ==
    SavedBatch =>
        /\ Raised(last.args[5]) =>
              /\ last.out = "raise"
              /\ last.val = <<>>
              /\ ttl = last.pre.ttl
        /\ last.val # <<>> =>
              /\ last.out = "ok"
              /\ last.args[5] = "ok"
              /\ BatchStored
              /\ last.val[1].count = GridSize(last.args[1])
              /\ last.val[1].temp = last.args[4]
        /\ last.out = "raise" => last.val = <<>>

\* a temp batch of four fields whose hmset reached the server and whose
\* reply was lost: the call raised and no expiry is armed
C12_Witness ==
    /\ SavedBatch
    /\ last.args[4] = TRUE
    /\ last.args[5] = "lost"
    /\ GridSize(last.args[1]) = 4
    /\ last.out = "raise"
    /\ BatchStored
    /\ ttl = 0

\* C13: when ping fails, init_redis raises to its caller after that one
\* attempt, no config_set reaches the store and the global client stays
\* unset; the global client is set only after ping and the four config_set
\* calls succeeded.
C13_FailFast ==
    /\ counts.error = "ping" =>
          /\ counts.pings = 1
          /\ config = <<>>
          /\ redis_client = "None"
          /\ pc \notin {"init_config", "init_publish", "ready"}
    /\ (last.op = "init_redis" /\ last.args = <<"ping">>) =>
          (last.out = "raise" /\ pc = "init_failed")
    /\ redis_client = "r" =>
          /\ counts.pings = 1
          /\ config = ConfigNames
          /\ counts.error \notin {"ping", "config_set"}
    /\ counts.pings <= 1

\* init_redis has just raised the error of a failed ping
C13_Witness ==
    /\ last.op = "init_redis"
    /\ last.args = <<"ping">>
    /\ last.out = "raise"
    /\ counts.error = "ping"
    /\ pool = 0

\* the writer's hmset has just run: every field of its batch is stored
WriterWrote ==
    (writer.pc = "hmset" /\ writer'.pc # "hmset") =>
        \A f \in DOMAIN writer.data :
            f \in DOMAIN hash' /\ hash'[f] = writer.data[f]

\* a step of graceful_exit leaves the writer's call and every formal_ field
\* as they were
ShutdownSpares ==
    GracefulExitStep =>
        /\ writer' = writer
        /\ FormalKept(hash, hash')
        /\ FormalFieldsOf(hash') = FormalFieldsOf(hash)

\* C14: in every interleaving of the commands of this process's
\* graceful_exit with another process's batch_save on the same root hash,
\* the batch write is not cancelled and writes all of its fields, the
\* shutting-down process deletes no formal_ field, and it reaches process
\* exit.
C14_SharedShutdown ==
    /\ [][WriterWrote /\ ShutdownSpares]_vars
    /\ (writer.pc = "hmset") ~> (writer.pc = "done")
    /\ (frames # <<>>) ~> (exit_status = <<0>>)

\* the writer's formal batch of four fields was written while the handler
\* was running, next to temp_ fields the cleanup deleted, and the process
\* then exited
C14_Witness ==
    /\ exit_status = <<0>>
    /\ writer.pc = "done"
    /\ writer.during = "shutdown"
    /\ ~writer.temp
    /\ Cardinality(DOMAIN writer.data) = 4
    /\ counts.caught = 0
    /\ counts.cleanups = 1
    /\ TempFieldsOf(hash) = {}
    /\ ttl > 0
    /\ \A f \in DOMAIN writer.data : f \in DOMAIN hash /\ hash[f] = writer.data[f]

MainFailed == pc \in {"init_failed", "main_failed"}

\* the step that leaves the failed state of main reports the error and
\* calls graceful_exit, unless a signal handler ends the process first
ErrorHandled ==
    (MainFailed /\ pc' \notin {"init_failed", "main_failed", "exited"}) =>
        /\ counts'.reported = counts.reported + 1
        /\ Len(frames') = Len(frames) + 1
        /\ frames'[Len(frames')].kind = "call"
        /\ frames'[Len(frames')].pc = "ge_check"

\* C15: whenever a step of main (init_redis, generate_wave_func,
\* batch_save, get_point, get_stats) raises an error, the error is reported
\* and graceful_exit, the shutdown sequence of a termination signal, is
\* invoked before the process exits, and the process then exits.
C15_ErrorPath ==
    /\ [][ErrorHandled]_vars
    /\ [](exit_status # <<>> =>
            /\ exit_status = <<0>>
            /\ Cardinality(counts.acted) = 1
            /\ (counts.error # "none" /\ counts.signals = 0) =>
                  (counts.reported = 1 /\ counts.invocations = 1))
    /\ (counts.error # "none") ~> (exit_status = <<0>>)

\* main failed on an initialised client with no signal delivered, and the
\* process exited through the graceful_exit its except clause called
C15_Witness ==
    /\ exit_status = <<0>>
    /\ redis_client = "r"
    /\ counts.error # "none"
    /\ counts.signals = 0
    /\ counts.reported = 1
    /\ counts.disconnects = 1
    /\ counts.cleanups = 1

StoreErrors == {"ping", "config_set", "batch_save", "get_point", "get_stats"}

\* C16: with the store reachable and every store operation succeeding, main
\* generates the samples, writes them with batch_save before it reads the
\* point, then reports the stats and waits in its loop; as long as no
\* signal has been delivered, graceful_exit is not entered.
C16_RunsUntilSignal ==
    /\ (redis_client = "r" /\ counts.error \notin StoreErrors
            /\ counts.signals = 0) =>
          /\ counts.error = "none"
          /\ counts.invocations = 0
          /\ exit_status = <<>>
    /\ last.op = "main" =>
          (last.out = "ok" =>
              last.args = <<"generate_wave_func", "batch_save", "get_point",
                            "get_stats">>)

\* what one call of batch_save does to the expiry of the root hash
BatchTtl ==
    SavedBatch =>
        /\ (last.out = "ok" /\ last.args[4]) => ttl = TEMP_DATA_TTL
        /\ ~last.args[4] => ttl = last.pre.ttl

\* a missing key has no expiry, and a running expiry ends only with the key
ExpiryWithKey ==
    /\ hash' = EmptyHash => ttl' = 0
    /\ (ttl > 0 /\ ttl' = 0) => hash' = EmptyHash

\* the step that arms the expiry is a temp batch_save that succeeded
ArmedBySuccess ==
    (ttl = 0 /\ ttl' > 0) =>
        (last'.op = "batch_save" /\ last'.args[4] /\ last'.out = "ok")

\* the step that arms the expiry is a temp batch_save whose expire the
\* server ran: the call succeeded, or raised for the lost reply
ArmedByExpire ==
    (ttl = 0 /\ ttl' > 0) =>
        /\ last'.op = "batch_save" /\ last'.args[4]
        /\ last'.args[5] = "ok"
        /\ Applied(last'.args[6])
        /\ last'.out = "raise" => last'.args[6] = "lost"

\* C17 as stated: a successful temp batch_save sets the expiry of the root
\* hash to the full TTL, a formal one neither arms nor clears it, and so the
\* root hash has an armed expiry iff a temp batch succeeded since the hash
\* was last created.
C17_ArmedIffTempSucceeded ==
    /\ [](BatchTtl /\ (hash = EmptyHash => ttl = 0))
    /\ [][ExpiryWithKey /\ ArmedBySuccess]_vars

\* C17 (amended): a successful temp batch_save sets the expiry of the root
\* hash to the full TTL, a formal one neither arms nor clears it, and the
\* root hash has an armed expiry iff, since the hash was last created, the
\* server ran the expire of a temp batch: of one that succeeded, or of one
\* that raised because the reply to its expire was lost.
C17_ArmedIffTempExpire ==
    /\ [](BatchTtl /\ (hash = EmptyHash => ttl = 0))
    /\ [][ExpiryWithKey /\ ArmedByExpire]_vars

\* a second temp batch returned when half of the TTL of the first had
\* passed, and the root hash, with the fields of the first, has the full
\* TTL again
C17_Witness ==
    /\ SavedBatch
    /\ last.out = "ok"
    /\ last.args[4] = TRUE
    /\ last.pre.ttl > 0
    /\ last.pre.ttl < TEMP_DATA_TTL
    /\ TempFieldsOf(last.pre.hash) # {}
    /\ ttl = TEMP_DATA_TTL

\* C18: in a single process with no concurrent writer, the total_points
\* that get_stats returns is the number of fields in the root hash when
\* get_stats returns, also when the memory check of that call evicted the
\* temp_ fields.
C18_StatsCount ==
    (GotStats /\ last.out = "ok") => last.val[1].total_points = HLen(hash)

====
